---- MODULE Spec2Model ----
(***************************************************************************)
(* A model of backend/tools/analysis_tool.py: the DataAnalysisTool that    *)
(* loads per-room NDJSON files, normalises their column names, filters,    *)
(* groups and aggregates the readings, and answers every call with a text. *)
(*                                                                         *)
(* Conventions of the model                                                *)
(*  - A cell of a data frame is a tuple: <<>> is NaN/NaT, <<v>> a number    *)
(*    (or a parsed timestamp, in hours since Monday 2024-01-01 00:00),      *)
(*    <<d, h>> the ISO text of day d, hour h before it is parsed, and       *)
(*    BadStamp a text pandas cannot parse as a date.                        *)
(*  - Floating-point results are carried in hundredths (Scale), which is    *)
(*    exact for everything the code rounds with .round(2).                  *)
(*  - An operation that may raise returns Ok(value) or Raise(type, msg).    *)
(***************************************************************************)
EXTENDS Integers, Sequences, FiniteSets, TLC

VARIABLES
    dataFolder,   \* TRUE iff the directory self._data_folder exists
    files,        \* room name -> [exists, lines]: <room>.ndjson in the data folder
    request,      \* the arguments of the last _run call
    outcome,      \* what that call did: returned a text, or raised
    columns,      \* _normalize_column_name: the columns argument of the last call
    target,       \* _normalize_column_name: the target_metric argument
    found         \* _normalize_column_name: the returned value, <<>> for None

vars == <<dataFolder, files, request, outcome, columns, target, found>>

----------------------------------------------------------------------------
(* Bounds of the model *)

\* Most lines in the freely chosen room file (room_a).
MaxLines == 2
\* Calendar days 0 .. MaxDay occur in timestamps and in filter dates.
MaxDay == 2
\* Most columns in a column list handed to the Schema Normalizer.
MaxCols == 2

----------------------------------------------------------------------------
(* Generic helpers *)

Range(s) == {s[i] : i \in DOMAIN s}

SeqsUpTo(S, n) == UNION {[1..k -> S] : k \in 0..n}

Ok(v) == [ok |-> TRUE, val |-> v, exc |-> "", msg |-> ""]
Raise(e, m) == [ok |-> FALSE, val |-> <<>>, exc |-> e, msg |-> m]

NaN == <<>>
Num(v) == <<v>>
IsNaN(c) == Len(c) = 0
Iso(d, h) == <<d, h>>
BadStamp == <<"not", "a", "date">>

HoursPerDay == 24
DayNames == <<"Monday", "Tuesday", "Wednesday", "Thursday", "Friday",
              "Saturday", "Sunday">>

----------------------------------------------------------------------------
(* Schema Normalizer *)

column_mappings ==
    [timestamp   |-> <<"timestamp", "time", "datetime", "date_time", "ts">>,
     co2         |-> <<"co2", "CO2", "CO2 (ppm)", "CO2 (PPM)">>,
     humidity    |-> <<"rh", "Relative Humidity (%)", "RH">>,
     temperature |-> <<"temp", "Temp", "Temperature (oC)">>]

\* str.lower() on the names that occur in the model; a name without an
\* upper-case letter is its own lower-case form.
Lower(s) ==
    CASE s = "CO2" -> "co2"
      [] s = "Co2" -> "co2"
      [] s = "CO2 (PPM)" -> "co2 (ppm)"
      [] s = "CO2 (ppm)" -> "co2 (ppm)"
      [] s = "Co2 (Ppm)" -> "co2 (ppm)"
      [] s = "RH" -> "rh"
      [] s = "Rh" -> "rh"
      [] s = "Relative Humidity (%)" -> "relative humidity (%)"
      [] s = "Temp" -> "temp"
      [] s = "TEMP" -> "temp"
      [] s = "Temperature (oC)" -> "temperature (oc)"
      [] s = "TEMPERATURE (OC)" -> "temperature (oc)"
      [] s = "Time" -> "time"
      [] s = "TIMESTAMP" -> "timestamp"
      [] s = "Timestamp" -> "timestamp"
      [] s = "TS" -> "ts"
      [] s = "DateTime" -> "datetime"
      [] s = "Date_Time" -> "date_time"
      [] s = "Temperature" -> "temperature"
      [] s = "Humidity" -> "humidity"
      [] s = "PM25" -> "pm25"
      [] OTHER -> s

PossibleNames(target_metric) ==
    IF target_metric \in DOMAIN column_mappings
    THEN column_mappings[target_metric] ELSE <<>>

NormalizeCaseSensitive(cols, target_metric) ==
    LET hits == {i \in DOMAIN cols :
                    cols[i] \in Range(PossibleNames(target_metric))}
    IN IF hits = {} THEN <<>>
       ELSE <<cols[CHOOSE i \in hits : \A j \in hits : i <= j]>>

RECURSIVE normalize_column_name(_, _)
normalize_column_name(cols, target_metric) ==
    IF cols = <<>> THEN <<>>
    ELSE IF Lower(Head(cols)) \in
                {Lower(n) : n \in Range(PossibleNames(target_metric))}
         THEN <<Head(cols)>>
         ELSE normalize_column_name(Tail(cols), target_metric)

----------------------------------------------------------------------------
(* Room Loader *)

\* One line of a room file: a JSON object (its keys in file order, with
\* their values), a blank line, or a text that is not JSON.
JsonLine(keys, vals) == [kind |-> "json", keys |-> keys, vals |-> vals]
BlankLine == [kind |-> "blank", keys |-> <<>>, vals |-> <<>>]
GarbageLine == [kind |-> "garbage", keys |-> <<>>, vals |-> <<>>]

NoFile == [exists |-> FALSE, lines |-> <<>>]
File(lines) == [exists |-> TRUE, lines |-> lines]

RECURSIVE OrderedUnion(_, _)
OrderedUnion(acc, s) ==
    IF s = <<>> THEN acc
    ELSE OrderedUnion(IF Head(s) \in Range(acc) THEN acc
                      ELSE Append(acc, Head(s)), Tail(s))

RECURSIVE AllKeys(_, _)
AllKeys(acc, data) ==
    IF data = <<>> THEN acc
    ELSE AllKeys(OrderedUnion(acc, Head(data).keys), Tail(data))

CellOf(rec, c) ==
    IF \E i \in DOMAIN rec.keys : rec.keys[i] = c
    THEN rec.vals[CHOOSE i \in DOMAIN rec.keys : rec.keys[i] = c]
    ELSE NaN

\* pd.DataFrame(data): the columns are the keys in order of first
\* appearance; a record without a key holds NaN there.
FrameOf(cols, data) ==
    [columns |-> cols,
     rows |-> [i \in DOMAIN data |->
                 [c \in Range(cols) |-> CellOf(data[i], c)]]]

DataFrame(data) == FrameOf(AllKeys(<<>>, data), data)

HasColumn(df, c) == c \in Range(df.columns)

\* df[name] = values: replaces the column when it exists, else appends it.
SetColumn(df, name, values) ==
    [columns |-> IF HasColumn(df, name) THEN df.columns
                 ELSE Append(df.columns, name),
     rows |-> [i \in DOMAIN df.rows |->
                 [c \in Range(df.columns) \cup {name} |->
                     IF c = name THEN values[i] ELSE df.rows[i][c]]]]

RECURSIVE BuildColumnMap(_, _, _)
BuildColumnMap(cols, targets, column_map) ==
    IF targets = <<>> THEN column_map
    ELSE LET actual_col == normalize_column_name(cols, Head(targets))
         IN BuildColumnMap(cols, Tail(targets),
                IF actual_col # <<>> /\ actual_col[1] # ""
                THEN (actual_col[1] :> Head(targets)) @@ column_map
                ELSE column_map)

\* df.rename(columns=column_map)
Rename(df, column_map) ==
    LET NewName(c) == IF c \in DOMAIN column_map THEN column_map[c] ELSE c
        newcols == [i \in DOMAIN df.columns |-> NewName(df.columns[i])]
        Orig(n) == CHOOSE c \in Range(df.columns) : NewName(c) = n
    IN [columns |-> newcols,
        rows |-> [i \in DOMAIN df.rows |->
                    [n \in Range(newcols) |-> df.rows[i][Orig(n)]]]]

\* pd.to_datetime on one value
Parseable(c) == Len(c) # Len(BadStamp)
to_datetime(c) ==
    IF IsNaN(c) THEN NaN
    ELSE IF Len(c) = 2 THEN Num(c[1] * HoursPerDay + c[2])
    ELSE Num(c[1] * HoursPerDay)

HourOf(ts) == IF IsNaN(ts) THEN NaN ELSE Num(ts[1] % HoursPerDay)
DateOf(ts) == IF IsNaN(ts) THEN NaN ELSE Num(ts[1] \div HoursPerDay)
DayNameOf(ts) ==
    IF IsNaN(ts) THEN NaN
    ELSE <<DayNames[((ts[1] \div HoursPerDay) % Len(DayNames)) + 1]>>

\* df['hour'], df['day_of_week'], df['date'] from the parsed column
DeriveFrom(df, stamps) ==
    SetColumn(
        SetColumn(
            SetColumn(SetColumn(df, "timestamp", stamps),
                      "hour", [i \in DOMAIN stamps |-> HourOf(stamps[i])]),
            "day_of_week", [i \in DOMAIN stamps |-> DayNameOf(stamps[i])]),
        "date", [i \in DOMAIN stamps |-> DateOf(stamps[i])])

WithTimeColumns(df) ==
    DeriveFrom(df, [i \in DOMAIN df.rows |-> to_datetime(df.rows[i]["timestamp"])])

SetRoom(df, room_name) ==
    SetColumn(df, "room", [i \in DOMAIN df.rows |-> <<room_name>>])

\* The timestamp parsing of _load_room_data and its last two lines.
ParseTimestamps(df, room_name) ==
    IF HasColumn(df, "timestamp")
    THEN IF \E i \in DOMAIN df.rows : ~Parseable(df.rows[i]["timestamp"])
         THEN Raise("DateParseError", "Unknown datetime string format")
         ELSE Ok(SetRoom(WithTimeColumns(df), room_name))
    ELSE Ok(SetRoom(df, room_name))

\* The column normalisation of _load_room_data.
NormalizeColumns(df) ==
    Rename(df, BuildColumnMap(df.columns,
                   <<"co2", "temperature", "humidity", "timestamp">>, <<>>))

\* The reading loop of _load_room_data: blank lines are skipped, and the
\* first line that is not JSON makes json.loads raise.
ReadLines(lines) ==
    IF \E i \in DOMAIN lines : lines[i].kind = "garbage"
    THEN Raise("JSONDecodeError", "Expecting value")
    ELSE Ok(SelectSeq(lines, LAMBDA l : l.kind # "blank"))

LoadDefaultingMissing(fs, folder, room_name) ==
    IF ~folder \/ ~fs[room_name].exists
    THEN Ok(SetRoom(DataFrame(<<>>), room_name))
    ELSE IF ~ReadLines(fs[room_name].lines).ok
         THEN ReadLines(fs[room_name].lines)
         ELSE ParseTimestamps(
                  NormalizeColumns(DataFrame(ReadLines(fs[room_name].lines).val)),
                  room_name)

load_room_data(fs, folder, room_name) ==
    IF ~folder \/ ~fs[room_name].exists
    THEN Raise("FileNotFoundError", "Data file not found")
    ELSE IF ~ReadLines(fs[room_name].lines).ok
         THEN ReadLines(fs[room_name].lines)
         ELSE ParseTimestamps(
                  NormalizeColumns(DataFrame(ReadLines(fs[room_name].lines).val)),
                  room_name)

----------------------------------------------------------------------------
(* Texts returned by the tool, and the two JSON conversions *)

\* A returned string: either a literal prefix followed by an interpolated
\* message (f"Analysis error: {str(e)}"), or the JSON encoding of a value.
StrText(pre, msg) == [form |-> "str", pre |-> pre, msg |-> msg, value |-> <<>>]
JsonText(v) == [form |-> "json", pre |-> "", msg |-> "", value |-> v]

Null == <<"null">>

\* A number in JSON: NaN is written as null.
JsonCell(c) == IF IsNaN(c) THEN Null ELSE c

\* result.to_json(orient='index', indent=2): rows keyed by the index label,
\* each row keyed by the column label.
to_json(result) ==
    JsonText([kind |-> result.kind,
              by |-> result.by,
              table |-> [k \in DOMAIN result.table |->
                           [c \in DOMAIN result.table[k] |->
                               IF result.kind = "agg"
                               THEN [s \in DOMAIN result.table[k][c] |->
                                        JsonCell(result.table[k][c][s])]
                               ELSE JsonCell(result.table[k][c])]]])

\* json.loads(text): only the encoding of a value parses.
json_loads(text) ==
    IF text.form = "json" THEN Ok(text.value)
    ELSE Raise("JSONDecodeError", "Expecting value")

----------------------------------------------------------------------------
(* Statistics of pandas, in hundredths *)

Scale == 100

RECURSIVE SumSeq(_)
SumSeq(s) == IF s = <<>> THEN 0 ELSE Head(s) + SumSeq(Tail(s))

RECURSIVE SumSquares(_)
SumSquares(s) == IF s = <<>> THEN 0 ELSE Head(s) * Head(s) + SumSquares(Tail(s))

MinSeq(s) == CHOOSE v \in Range(s) : \A w \in Range(s) : v <= w
MaxSeq(s) == CHOOSE v \in Range(s) : \A w \in Range(s) : w <= v

RECURSIVE Insert(_, _)
Insert(v, s) ==
    IF s = <<>> THEN <<v>>
    ELSE IF v <= Head(s) THEN <<v>> \o s
         ELSE <<Head(s)>> \o Insert(v, Tail(s))

RECURSIVE Sorted(_)
Sorted(s) == IF s = <<>> THEN <<>> ELSE Insert(Head(s), Sorted(Tail(s)))

\* n / d rounded to the nearest integer, ties to the even one (n >= 0, d > 0).
RoundDiv(n, d) ==
    LET q == n \div d
        r == n % d
    IN IF 2 * r < d THEN q
       ELSE IF 2 * r > d THEN q + 1
       ELSE IF q % 2 = 0 THEN q ELSE q + 1

\* The integer nearest to sqrt(n / d), searched between lo and hi.
RECURSIVE NearestRoot(_, _, _, _)
NearestRoot(n, d, lo, hi) ==
    IF lo >= hi THEN lo
    ELSE LET mid == (lo + hi + 1) \div 2
         IN IF (2 * mid - 1) * (2 * mid - 1) * d <= 4 * n
            THEN NearestRoot(n, d, mid, hi)
            ELSE NearestRoot(n, d, lo, mid - 1)

\* Each takes the values of one column that are not NaN.
Mean(vals) ==
    IF vals = <<>> THEN NaN ELSE Num(RoundDiv(Scale * SumSeq(vals), Len(vals)))
Minimum(vals) == IF vals = <<>> THEN NaN ELSE Num(Scale * MinSeq(vals))
Maximum(vals) == IF vals = <<>> THEN NaN ELSE Num(Scale * MaxSeq(vals))
\* The sample standard deviation (ddof = 1).
Std(vals) ==
    IF Len(vals) < 2 THEN NaN
    ELSE Num(NearestRoot(
                 Scale * Scale * (Len(vals) * SumSquares(vals)
                                  - SumSeq(vals) * SumSeq(vals)),
                 Len(vals) * (Len(vals) - 1), 0,
                 Scale * (MaxSeq(vals) - MinSeq(vals)) + 1))
\* The quartile q / 4 by linear interpolation between the order statistics s.
Interpolate(s, q) ==
    IF (q * (Len(s) - 1)) % 4 = 0
    THEN Num(Scale * s[((q * (Len(s) - 1)) \div 4) + 1])
    ELSE Num(Scale * s[((q * (Len(s) - 1)) \div 4) + 1]
             + (Scale \div 4) * ((q * (Len(s) - 1)) % 4)
               * (s[((q * (Len(s) - 1)) \div 4) + 2]
                  - s[((q * (Len(s) - 1)) \div 4) + 1]))
Quartile(vals, q) == IF vals = <<>> THEN NaN ELSE Interpolate(Sorted(vals), q)

----------------------------------------------------------------------------
(* Aggregation Engine *)

Get(params, key, default) ==
    IF key \in DOMAIN params THEN params[key] ELSE default

\* The "rooms" parameter is the text "all" or a list of room names.
All == [all |-> TRUE, list |-> <<>>]
RoomList(l) == [all |-> FALSE, list |-> l]

DefaultRooms == <<"room_a", "room_b", "room_c", "room_d">>
DefaultMetrics == <<"temperature", "co2", "humidity">>

RECURSIVE LoadAllStoppingAtMissing(_, _, _, _)
LoadAllStoppingAtMissing(fs, folder, rooms, all_data) ==
    IF rooms = <<>> THEN Ok(all_data)
    ELSE IF load_room_data(fs, folder, Head(rooms)).ok
         THEN LoadAllStoppingAtMissing(fs, folder, Tail(rooms),
                  Append(all_data, load_room_data(fs, folder, Head(rooms)).val))
         ELSE load_room_data(fs, folder, Head(rooms))

\* The loading loop: a FileNotFoundError skips the room, any other
\* exception leaves the loop (and _analyze_data's try block).
RECURSIVE LoadAll(_, _, _, _)
LoadAll(fs, folder, rooms, all_data) ==
    IF rooms = <<>> THEN Ok(all_data)
    ELSE IF load_room_data(fs, folder, Head(rooms)).ok
         THEN LoadAll(fs, folder, Tail(rooms),
                  Append(all_data, load_room_data(fs, folder, Head(rooms)).val))
         ELSE IF load_room_data(fs, folder, Head(rooms)).exc = "FileNotFoundError"
              THEN LoadAll(fs, folder, Tail(rooms), all_data)
              ELSE load_room_data(fs, folder, Head(rooms))

RECURSIVE ConcatColumns(_, _)
ConcatColumns(acc, frames) ==
    IF frames = <<>> THEN acc
    ELSE ConcatColumns(OrderedUnion(acc, Head(frames).columns), Tail(frames))

RECURSIVE ConcatRows(_, _)
ConcatRows(cols, frames) ==
    IF frames = <<>> THEN <<>>
    ELSE LET f == Head(frames)
         IN [i \in DOMAIN f.rows |->
                [c \in Range(cols) |->
                    IF HasColumn(f, c) THEN f.rows[i][c] ELSE NaN]]
            \o ConcatRows(cols, Tail(frames))

\* pd.concat(all_data, ignore_index=True)
concat(frames) ==
    LET cols == ConcatColumns(<<>>, frames)
    IN [columns |-> cols, rows |-> ConcatRows(cols, frames)]

\* A comparison with NaT is False.
OnOrAfter(ts, bound) == ~IsNaN(ts) /\ ts[1] >= bound[1]
OnOrBefore(ts, bound) == ~IsNaN(ts) /\ ts[1] <= bound[1]

KeepStart(df, start_date) ==
    [columns |-> df.columns,
     rows |-> SelectSeq(df.rows, LAMBDA r : OnOrAfter(r["timestamp"], start_date))]

KeepEnd(df, end_date) ==
    [columns |-> df.columns,
     rows |-> SelectSeq(df.rows, LAMBDA r : OnOrBefore(r["timestamp"], end_date))]

\* The two filter statements; dfE is the frame so far, or the exception
\* already raised.
FilterStart(dfE, filter_params) ==
    IF ~dfE.ok \/ "start_date" \notin DOMAIN filter_params THEN dfE
    ELSE IF ~Parseable(filter_params["start_date"])
         THEN Raise("DateParseError", "Unknown datetime string format")
         ELSE IF ~HasColumn(dfE.val, "timestamp")
              THEN Raise("KeyError", "'timestamp'")
              ELSE Ok(KeepStart(dfE.val, to_datetime(filter_params["start_date"])))

FilterEnd(dfE, filter_params) ==
    IF ~dfE.ok \/ "end_date" \notin DOMAIN filter_params THEN dfE
    ELSE IF ~Parseable(filter_params["end_date"])
         THEN Raise("DateParseError", "Unknown datetime string format")
         ELSE IF ~HasColumn(dfE.val, "timestamp")
              THEN Raise("KeyError", "'timestamp'")
              ELSE Ok(KeepEnd(dfE.val, to_datetime(filter_params["end_date"])))

ApplyFilters(df, filter_params) ==
    FilterEnd(FilterStart(Ok(df), filter_params), filter_params)

\* The values of column m that are not NaN, in the rows whose key column
\* holds k.
ValuesOf(df, keycol, k, m) ==
    LET rows == SelectSeq(df.rows,
                    LAMBDA r : ~IsNaN(r[keycol]) /\ r[keycol][1] = k
                               /\ ~IsNaN(r[m]))
    IN [i \in DOMAIN rows |-> rows[i][m][1]]

\* groupby drops the rows whose key is NaN.
GroupKeys(df, keycol) ==
    {df.rows[i][keycol][1] : i \in {j \in DOMAIN df.rows :
                                       ~IsNaN(df.rows[j][keycol])}}

\* combined_df.groupby(keycol)[available_metrics].mean().round(2)
GroupMean(df, keycol, by, available_metrics) ==
    IF ~HasColumn(df, keycol) THEN Raise("KeyError", "'" \o keycol \o "'")
    ELSE Ok([kind |-> "mean", by |-> by,
             table |-> [k \in GroupKeys(df, keycol) |->
                          [m \in Range(available_metrics) |->
                              Mean(ValuesOf(df, keycol, k, m))]]])

\* .agg(['mean', 'min', 'max', 'std']).round(2) on the values of one group
AggOf(vals) ==
    [mean |-> Mean(vals), min |-> Minimum(vals),
     max |-> Maximum(vals), std |-> Std(vals)]

\* combined_df.groupby('room')[available_metrics]
\*     .agg(['mean', 'min', 'max', 'std']).round(2)
\* With no column selected pandas has nothing to concatenate and raises.
GroupAgg(df, available_metrics) ==
    IF available_metrics = <<>> THEN Raise("ValueError", "No objects to concatenate")
    ELSE Ok([kind |-> "agg", by |-> "room",
             table |-> [k \in GroupKeys(df, "room") |->
                          [m \in Range(available_metrics) |->
                              AggOf(ValuesOf(df, "room", k, m))]]])

ColumnValues(df, m) ==
    [i \in DOMAIN SelectSeq(df.rows, LAMBDA r : ~IsNaN(r[m])) |->
        SelectSeq(df.rows, LAMBDA r : ~IsNaN(r[m]))[i][m][1]]

RoomCount(df, k) ==
    Cardinality({i \in DOMAIN df.rows : df.rows[i]["room"][1] = k})

\* The most frequent room, the first seen among equals.
TopRoom(df) ==
    df.rows[CHOOSE i \in DOMAIN df.rows :
               \A j \in DOMAIN df.rows :
                  \/ RoomCount(df, df.rows[j]["room"][1])
                         < RoomCount(df, df.rows[i]["room"][1])
                  \/ /\ RoomCount(df, df.rows[j]["room"][1])
                            = RoomCount(df, df.rows[i]["room"][1])
                     /\ i <= j]["room"][1]

NumericStat(s, vals) ==
    CASE s = "count" -> Num(Len(vals))
      [] s = "mean" -> Mean(vals)
      [] s = "std" -> Std(vals)
      [] s = "min" -> Minimum(vals)
      [] s = "25%" -> Quartile(vals, 1)
      [] s = "50%" -> Quartile(vals, 2)
      [] s = "75%" -> Quartile(vals, 3)
      [] s = "max" -> Maximum(vals)

ObjectStat(s, df) ==
    CASE s = "count" -> Num(Len(df.rows))
      [] s = "unique" -> Num(Cardinality(GroupKeys(df, "room")))
      [] s = "top" -> IF df.rows = <<>> THEN NaN ELSE <<TopRoom(df)>>
      [] s = "freq" -> IF df.rows = <<>> THEN NaN
                       ELSE Num(RoomCount(df, TopRoom(df)))

\* combined_df[['room'] + available_metrics].describe(): the numeric columns
\* are summarised; the room column only when there is no numeric one.
Describe(df, available_metrics) ==
    IF available_metrics # <<>>
    THEN Ok([kind |-> "describe", by |-> "",
             table |->
               [s \in {"count", "mean", "std", "min", "25%", "50%", "75%", "max"} |->
                  [m \in Range(available_metrics) |->
                      NumericStat(s, ColumnValues(df, m))]]])
    ELSE Ok([kind |-> "describe", by |-> "",
             table |-> [s \in {"count", "unique", "top", "freq"} |->
                          [m \in {"room"} |-> ObjectStat(s, df)]]])

GroupByDefaultNone(params) == Get(params, "group_by", "none")

GroupByOf(params) == Get(params, "group_by", "room")

Aggregate(df, group_by, available_metrics) ==
    IF group_by = "hour" THEN GroupMean(df, "hour", "hour", available_metrics)
    ELSE IF group_by = "day"
         THEN GroupMean(df, "day_of_week", "day", available_metrics)
    ELSE IF group_by = "room" THEN GroupAgg(df, available_metrics)
    ELSE IF group_by = "date" THEN GroupMean(df, "date", "date", available_metrics)
    ELSE Describe(df, available_metrics)

\* What an except clause makes of its try block: the block's text, or the
\* prefix followed by str(e).
CaughtBare(r, prefix) == IF r.ok THEN Ok(r.val) ELSE Ok(StrText("", r.msg))

Caught(r, prefix) == IF r.ok THEN Ok(r.val) ELSE Ok(StrText(prefix, r.msg))

Serialized(result) == IF result.ok THEN Ok(to_json(result.val)) ELSE result

\* Lines 157-174 of _analyze_data: grouping and aggregation.
GroupAndAggregate(combined_df, params) ==
    IF ~combined_df.ok THEN combined_df
    ELSE Serialized(Aggregate(
             combined_df.val, GroupByOf(params),
             SelectSeq(Get(params, "metrics", DefaultMetrics),
                       LAMBDA m : HasColumn(combined_df.val, m))))

\* Lines 141-155 of _analyze_data: the no-data answer, concat, the filters.
CombineAndFilter(all_data, params) ==
    IF ~all_data.ok THEN all_data
    ELSE IF all_data.val = <<>> THEN Ok(StrText("No data files found", ""))
    ELSE GroupAndAggregate(
             ApplyFilters(concat(all_data.val), Get(params, "filter", <<>>)),
             params)

RoomsOf(params) ==
    IF Get(params, "rooms", All).all THEN DefaultRooms
    ELSE Get(params, "rooms", All).list

\* The try block of _analyze_data.
AnalyzeBody(fs, folder, params) ==
    CombineAndFilter(LoadAll(fs, folder, RoomsOf(params), <<>>), params)

\* _analyze_data returns a text whatever happens in its try block.
analyze_data(fs, folder, params) ==
    Caught(AnalyzeBody(fs, folder, params), "Analysis error: ")

----------------------------------------------------------------------------
(* Result Serializer: chart configuration and schema introspection *)

\* str.title() on the group_by values of the model
Title(s) ==
    CASE s = "hour" -> "Hour"
      [] s = "day" -> "Day"
      [] s = "date" -> "Date"
      [] s = "room" -> "Room"
      [] s = "week" -> "Week"
      [] OTHER -> s

\* The dictionary of _create_chart; its entries are evaluated in the order
\* they are written, so json.loads fails before the metrics are indexed.
ChartConfig(data, params) ==
    IF ~data.ok THEN data
    ELSE IF Get(params, "metrics", <<"temperature">>) = <<>>
         THEN Raise("IndexError", "list index out of range")
         ELSE Ok(JsonText(
                 [type |-> Get(params, "chart_type", "line"),
                  data |-> data.val,
                  title |-> "Air Quality Analysis - " \o Title(GroupByOf(params)),
                  x_axis |-> GroupByOf(params),
                  y_axis |-> Get(params, "metrics", <<"temperature">>)[1]]))

ParsedLenient(analysis_result) ==
    IF ~analysis_result.ok THEN analysis_result
    ELSE IF analysis_result.val.form = "json" THEN Ok(analysis_result.val.value)
         ELSE Ok(analysis_result.val.pre \o analysis_result.val.msg)

Parsed(analysis_result) ==
    IF analysis_result.ok THEN json_loads(analysis_result.val)
    ELSE analysis_result

\* The try block of _create_chart.
ChartBody(fs, folder, params) ==
    ChartConfig(Parsed(analyze_data(fs, folder, params)), params)

create_chart(fs, folder, params) ==
    Caught(ChartBody(fs, folder, params), "Chart creation error: ")

\* The try block of _load_data_info. listing is os.listdir's answer: the
\* room files that exist, in the order the operating system gives them.
\* A first line that is not a JSON object makes json.loads raise, whatever
\* the place of its file in the listing.
LoadInfoBody(fs, folder, listing) ==
    IF ~folder THEN Raise("FileNotFoundError", "No such file or directory")
    ELSE IF \E i \in DOMAIN listing :
               /\ fs[listing[i]].lines # <<>>
               /\ fs[listing[i]].lines[1].kind # "json"
         THEN Raise("JSONDecodeError", "Expecting value")
         ELSE LET filled == SelectSeq(listing, LAMBDA r : fs[r].lines # <<>>)
              IN Ok(JsonText(
                     [i \in DOMAIN filled |->
                        [filename |-> filled[i] \o ".ndjson",
                         room |-> filled[i],
                         columns |-> fs[filled[i]].lines[1].keys,
                         sample_data |-> fs[filled[i]].lines[1]]]))

load_data_info(fs, folder, listing) ==
    Caught(LoadInfoBody(fs, folder, listing), "Error loading data info: ")

----------------------------------------------------------------------------
(* The tool entry point *)

\* An argument of _run: the empty string, a text that is not JSON, or the
\* JSON encoding of an object (the parameters) or of another value.
EmptyStr == [form |-> "empty", object |-> FALSE, params |-> <<>>]
NotJson == [form |-> "text", object |-> FALSE, params |-> <<>>]
JsonNonObject == [form |-> "json", object |-> FALSE, params |-> <<>>]
JsonObject(params) == [form |-> "json", object |-> TRUE, params |-> params]

Return(text) == [kind |-> "return", text |-> text]
Raises(r) == [kind |-> "raise", text |-> StrText(r.exc, r.msg)]
NotCalled == [kind |-> "none", text |-> StrText("", "")]

\* The dispatch on params.get('operation', 'analyze').
Dispatch(fs, folder, params, listing) ==
    IF Get(params, "operation", "analyze") = "load"
    THEN load_data_info(fs, folder, listing)
    ELSE IF Get(params, "operation", "analyze") = "analyze"
         THEN analyze_data(fs, folder, params)
    ELSE IF Get(params, "operation", "analyze") = "chart"
         THEN create_chart(fs, folder, params)
    ELSE Ok(StrText("Unknown operation. Use 'load', 'analyze', or 'chart'.", ""))

\* The try block of _run.
RunBody(fs, folder, input_str, listing) ==
    IF input_str.form # "json" THEN Raise("JSONDecodeError", "Expecting value")
    ELSE IF ~input_str.object
         THEN Raise("AttributeError", "object has no attribute 'get'")
    ELSE Dispatch(fs, folder, input_str.params, listing)

AnswerOrRaise(r) == IF r.ok THEN Return(r.val) ELSE Raises(r)

\* What _run does with its try block: the text is returned, an exception
\* becomes the text "Error: " followed by str(e).
Answer(r) ==
    IF r.ok THEN Return(r.val) ELSE Return(StrText("Error: ", r.msg))

\* Lines 49-50 of _run: input is used when input_str is empty.
Chosen(input_str, input) ==
    IF input_str.form = "empty" /\ input.form # "empty" THEN input ELSE input_str

run(fs, folder, input_str, input, listing) ==
    IF Chosen(input_str, input).form = "empty"
    THEN Return(StrText("Error: No input provided to data_analysis_tool", ""))
    ELSE Answer(RunBody(fs, folder, Chosen(input_str, input), listing))

----------------------------------------------------------------------------
(* The data folders and the requests of the model *)

Days == 0..MaxDay

\* Lines room_a's file is made of: a reading at noon of day 1, a reading
\* whose timestamp is no date, a line that is not JSON, a blank line.
LineSet ==
    {JsonLine(<<"timestamp", "CO2 (PPM)", "Temp">>, <<Iso(1, 12), Num(4), Num(2)>>),
     JsonLine(<<"timestamp", "Temp">>, <<BadStamp, Num(1)>>),
     GarbageLine,
     BlankLine}

\* room_b: a reading at the first and at the last hour of every day.
StampedLines ==
    [i \in 1..(2 * (MaxDay + 1)) |->
        JsonLine(<<"time", "co2", "temp">>,
                 <<Iso((i - 1) \div 2, IF i % 2 = 1 THEN 0 ELSE HoursPerDay - 1),
                   Num(i), Num(2 * i)>>)]

\* room_c: one reading at noon of day 1; room_d: readings without a time.
NoonLines == <<JsonLine(<<"ts", "Temperature (oC)", "rh">>,
                        <<Iso(1, 12), Num(3), Num(6)>>)>>
UnstampedLines == <<JsonLine(<<"Co2", "RH">>, <<Num(7), Num(1)>>),
                    JsonLine(<<"Co2">>, <<Num(2)>>)>>

DataFolders ==
    {[room_a |-> a, room_b |-> b, room_c |-> c, room_d |-> d] :
        a \in {NoFile} \cup {File(l) : l \in SeqsUpTo(LineSet, MaxLines)},
        b \in {NoFile, File(StampedLines)},
        c \in {NoFile, File(NoonLines)},
        d \in {NoFile, File(UnstampedLines)}}

\* A JSON object with the fields that are given: each argument is <<>> for
\* a field that is left out, or <<v>> for the field with value v.
Fields(rooms, group_by, metrics, filter) ==
    LET arg == [rooms |-> rooms, group_by |-> group_by,
                metrics |-> metrics, filter |-> filter]
    IN [k \in {f \in DOMAIN arg : arg[f] # <<>>} |-> arg[k][1]]

RoomChoices == {<<All>>, <<RoomList(<<"room_b", "room_a">>)>>}
GroupChoices == {<<>>, <<"hour">>, <<"day">>, <<"date">>, <<"room">>, <<"week">>}
MetricChoices == {<<>>, <<<<"co2", "temperature">>>>, <<<<>>>>}
DateTexts == {<<d>> : d \in Days}
FilterChoices ==
    {<<[start_date |-> s]>> : s \in DateTexts \cup {BadStamp}}
    \cup {<<[end_date |-> e]>> : e \in DateTexts}
    \cup {<<[start_date |-> s, end_date |-> s]>> : s \in DateTexts}
    \cup {<< <<>> >>}

GroupingParams ==
    {Fields(r, g, m, <<>>) :
        r \in RoomChoices, g \in GroupChoices, m \in MetricChoices}
FilterParams ==
    {Fields(r, g, <<>>, f) :
        r \in RoomChoices, g \in {<<>>, <<"date">>}, f \in FilterChoices}
AnalysisParams == GroupingParams \cup FilterParams

WithField(params, key, value) == (key :> value) @@ params

Listings(fs) ==
    LET present == {r \in DOMAIN fs : fs[r].exists}
    IN {l \in [1..Cardinality(present) -> present] :
           \A i, j \in DOMAIN l : i # j => l[i] # l[j]}

----------------------------------------------------------------------------
(* The state machine: one action for each kind of call *)

Init ==
    /\ dataFolder \in BOOLEAN
    /\ files \in DataFolders
    /\ ~dataFolder => \A r \in DOMAIN files : ~files[r].exists
    /\ request = [input_str |-> EmptyStr, input |-> EmptyStr]
    /\ outcome = NotCalled
    /\ columns = <<>>
    /\ target = ""
    /\ found = <<>>

\* The tool is invoked synchronously, one call at a time (the agent waits
\* for the text), and keeps nothing from one call to the next. listing is
\* what os.listdir answers during the call.
Call(input_str, input, listing) ==
    /\ outcome = NotCalled
    /\ request' = [input_str |-> input_str, input |-> input]
    /\ outcome' = run(files, dataFolder, input_str, input, listing)
    /\ UNCHANGED <<dataFolder, files, columns, target, found>>

AnyListing == CHOOSE l \in Listings(files) : TRUE

\* {"operation": "analyze", ...}
Analyze ==
    \E p \in AnalysisParams :
        Call(JsonObject(WithField(p, "operation", "analyze")), EmptyStr, AnyListing)

\* {"operation": "chart", ...}
Chart ==
    \E p \in GroupingParams, t \in {<<>>, <<"bar">>} :
        Call(JsonObject(WithField(
                 IF t = <<>> THEN p ELSE WithField(p, "chart_type", t[1]),
                 "operation", "chart")), EmptyStr, AnyListing)

\* {"operation": "load"}: the files are listed in an arbitrary order
Load ==
    \E listing \in Listings(files) :
        Call(JsonObject([operation |-> "load"]), EmptyStr, listing)

\* an operation the tool does not know
Unknown == Call(JsonObject([operation |-> "plot"]), EmptyStr, AnyListing)

\* no input, a text that is not JSON, JSON that is not an object, and an
\* object without an operation
Malformed ==
    \E s \in {EmptyStr, NotJson, JsonNonObject, JsonObject(<<>>)} :
        Call(s, EmptyStr, AnyListing)

\* the request passed in the argument named input
ViaInput ==
    \E s \in {NotJson, JsonObject([operation |-> "analyze"]),
              JsonObject([operation |-> "chart"])} :
        Call(EmptyStr, s, AnyListing)

\* The caller takes the returned text; the tool is idle again.
Deliver ==
    /\ outcome # NotCalled
    /\ request' = [input_str |-> EmptyStr, input |-> EmptyStr]
    /\ outcome' = NotCalled
    /\ UNCHANGED <<dataFolder, files, columns, target, found>>

Next == Analyze \/ Chart \/ Load \/ Unknown \/ Malformed \/ ViaInput \/ Deliver

Spec == Init /\ [][Next]_vars

----------------------------------------------------------------------------
(* The Schema Normalizer on its own: _normalize_column_name applied to
   column lists of at most MaxCols names *)

ColumnNames ==
    {"timestamp", "Time", "TS", "co2", "CO2 (PPM)", "Co2 (Ppm)", "RH", "rh",
     "Temp", "TEMP", "TEMPERATURE (OC)", "temperature", "PM25"}

TargetMetrics == {"timestamp", "co2", "humidity", "temperature", "pm25"}

NormInit ==
    /\ dataFolder = TRUE
    /\ files = [r \in Range(DefaultRooms) |-> NoFile]
    /\ request = [input_str |-> EmptyStr, input |-> EmptyStr]
    /\ outcome = NotCalled
    /\ columns = <<>>
    /\ target = ""
    /\ found = <<>>

Normalize ==
    /\ target = ""
    /\ \E cols \in SeqsUpTo(ColumnNames, MaxCols), target_metric \in TargetMetrics :
          /\ columns' = cols
          /\ target' = target_metric
          /\ found' = normalize_column_name(cols, target_metric)
    /\ UNCHANGED <<dataFolder, files, request, outcome>>

\* The loader takes the answer.
NormReturn ==
    /\ target # ""
    /\ columns' = <<>>
    /\ target' = ""
    /\ found' = <<>>
    /\ UNCHANGED <<dataFolder, files, request, outcome>>

NormNext == Normalize \/ NormReturn

NormSpec == NormInit /\ [][NormNext]_vars

----------------------------------------------------------------------------
(* What the checked properties speak about *)

Called == outcome.kind # "none"

\* The argument the call used.
TheInput ==
    IF request.input_str.form = "empty" THEN request.input ELSE request.input_str

HasParams == Called /\ TheInput.form = "json" /\ TheInput.object
Params == TheInput.params
AnalyzeCall == HasParams /\ Get(Params, "operation", "analyze") = "analyze"
ChartCall == HasParams /\ Get(Params, "operation", "analyze") = "chart"

Exists(room) == dataFolder /\ files[room].exists
Loads(room) == load_room_data(files, dataFolder, room).ok
FramesOf(rooms) ==
    [i \in DOMAIN rooms |-> load_room_data(files, dataFolder, rooms[i]).val]

ExistingRooms == SelectSeq(RoomsOf(Params), Exists)
LoadableRooms == SelectSeq(RoomsOf(Params), LAMBDA r : Exists(r) /\ Loads(r))

\* The analysis that starts from the given room datasets.
AnalysisOver(frames) ==
    Caught(CombineAndFilter(Ok(frames), Params), "Analysis error: ").val

AllLoaded == LoadAll(files, dataFolder, RoomsOf(Params), <<>>)
Combined == concat(AllLoaded.val)
ReachesFilter == AllLoaded.ok /\ AllLoaded.val # <<>>

\* The analysis of the rows of df, grouped and aggregated as requested.
AggregationOf(df) ==
    Caught(GroupAndAggregate(Ok(df), Params), "Analysis error: ").val

----------------------------------------------------------------------------
\* C1: every call of _run returns a text and never raises, whatever the
\* input (empty, not JSON, not an object, unknown operation, missing or
\* malformed room files, unparseable dates, an empty metrics list).
C1_AlwaysReturnsText ==
    Called => /\ outcome.kind = "return"
              /\ outcome.text.form \in {"str", "json"}

\* A chart request over a room file with a line that is not JSON, and with
\* an empty metrics list, was answered.
C1_Witness ==
    /\ ChartCall
    /\ "metrics" \in DOMAIN Params /\ Params["metrics"] = <<>>
    /\ Exists("room_a")
    /\ \E i \in DOMAIN files["room_a"].lines :
          files["room_a"].lines[i].kind = "garbage"
    /\ outcome.kind = "return"

----------------------------------------------------------------------------
\* C2: in an analyze request a room without a file is skipped: when a
\* requested room has a file (and the files that exist load), the answer is
\* the analysis of the concatenation, in request order, of exactly the rooms
\* whose files exist.
C2_MissingRoomsSkipped ==
    (/\ AnalyzeCall
     /\ ExistingRooms # <<>>
     /\ \A i \in DOMAIN ExistingRooms : Loads(ExistingRooms[i]))
    => outcome.text = AnalysisOver(FramesOf(ExistingRooms))

\* rooms = "all" with exactly room_b and room_c present: the answer groups
\* exactly these two rooms.
C2_Witness ==
    /\ AnalyzeCall
    /\ "rooms" \in DOMAIN Params /\ Params["rooms"].all
    /\ "group_by" \in DOMAIN Params /\ Params["group_by"] = "room"
    /\ {r \in DOMAIN files : Exists(r)} = {"room_b", "room_c"}
    /\ outcome.text.form = "json"
    /\ DOMAIN outcome.text.value.table = {"room_b", "room_c"}

----------------------------------------------------------------------------
\* C3: a room whose file has a line that is not JSON, or a timestamp that
\* is no date, is absorbed in a multi-room analyze request: the answer is
\* the analysis of the requested rooms that loaded.
C3_RoomFailureAbsorbed ==
    (/\ AnalyzeCall
     /\ \E i \in DOMAIN ExistingRooms : ~Loads(ExistingRooms[i])
     /\ LoadableRooms # <<>>)
    => outcome.text = AnalysisOver(FramesOf(LoadableRooms))

----------------------------------------------------------------------------
\* C4: with start_date = end_date = D the records that reach aggregation
\* are exactly the loaded records whose timestamp falls on day D, at any
\* time of that day.
SameDayFilter ==
    /\ "filter" \in DOMAIN Params
    /\ DOMAIN Params["filter"] = {"start_date", "end_date"}
    /\ Params["filter"]["start_date"] = Params["filter"]["end_date"]
    /\ Parseable(Params["filter"]["start_date"])

OnDay(df, d) ==
    [columns |-> df.columns,
     rows |-> SelectSeq(df.rows,
                 LAMBDA r : /\ ~IsNaN(r["timestamp"])
                            /\ r["timestamp"][1] \div HoursPerDay = d)]

C4_SameDayFilterKeepsTheDay ==
    (/\ AnalyzeCall
     /\ SameDayFilter
     /\ ReachesFilter
     /\ HasColumn(Combined, "timestamp"))
    => outcome.text =
           AggregationOf(OnDay(Combined, Params["filter"]["start_date"][1]))

----------------------------------------------------------------------------
\* C5: when no requested room has a file, an analyze request answers with
\* the no-data message, never with an aggregation over zero rows.
C5_NoFileNoData ==
    (/\ AnalyzeCall
     /\ \A i \in DOMAIN RoomsOf(Params) : ~Exists(RoomsOf(Params)[i]))
    => outcome.text = StrText("No data files found", "")

\* rooms = "all" with the data folder there and none of the four files.
C5_Witness ==
    /\ AnalyzeCall
    /\ "rooms" \in DOMAIN Params /\ Params["rooms"].all
    /\ dataFolder
    /\ \A r \in DOMAIN files : ~files[r].exists
    /\ outcome.text.pre = "No data files found"

----------------------------------------------------------------------------
\* C6: the aggregation an analyze request returns is chosen by group_by.
Available(df) ==
    SelectSeq(Get(Params, "metrics", DefaultMetrics), LAMBDA m : HasColumn(df, m))

Filtered == ApplyFilters(Combined, Get(Params, "filter", <<>>)).val

SelectedBy(group_by, df) ==
    CASE group_by = "hour" -> GroupMean(df, "hour", "hour", Available(df))
      [] group_by = "day" -> GroupMean(df, "day_of_week", "day", Available(df))
      [] group_by = "date" -> GroupMean(df, "date", "date", Available(df))
      [] group_by = "room" -> GroupAgg(df, Available(df))
      [] OTHER -> Describe(df, Available(df))

\* C6, as claimed: hour, day, date and room partition by that dimension;
\* any other group_by, and a request without group_by, gives the
\* descriptive summary of the whole CombinedDataset.
C6_OmittedGroupByDescribes ==
    (AnalyzeCall /\ outcome.text.form = "json")
    => /\ SelectedBy(Get(Params, "group_by", "<omitted>"), Filtered).ok
       /\ outcome.text =
              to_json(SelectedBy(Get(Params, "group_by", "<omitted>"), Filtered).val)

\* C6, amended: hour, day, date and room partition by that dimension, any
\* other group_by gives the descriptive summary, and a request without
\* group_by is grouped by room.
C6_OmittedGroupByIsRoom ==
    (AnalyzeCall /\ outcome.text.form = "json")
    => /\ SelectedBy(IF "group_by" \in DOMAIN Params
                     THEN Params["group_by"] ELSE "room", Filtered).ok
       /\ outcome.text =
              to_json(SelectedBy(IF "group_by" \in DOMAIN Params
                                 THEN Params["group_by"] ELSE "room", Filtered).val)

\* A request without group_by over two rooms was answered with the
\* statistics of each room.
C6_Witness ==
    /\ AnalyzeCall
    /\ "group_by" \notin DOMAIN Params
    /\ outcome.text.form = "json"
    /\ outcome.text.value.kind = "agg"
    /\ Cardinality(DOMAIN outcome.text.value.table) >= 2

----------------------------------------------------------------------------
\* C7: with a date filter the records without a timestamp are dropped and
\* the request still succeeds, also when no loaded room has a timestamp
\* column: the answer is the aggregation of the records whose timestamp
\* lies within the bounds.
ActiveFilter ==
    /\ "filter" \in DOMAIN Params
    /\ DOMAIN Params["filter"] # {}
    /\ \A k \in DOMAIN Params["filter"] : Parseable(Params["filter"][k])

Within(ts, filter_params) ==
    /\ ~IsNaN(ts)
    /\ "start_date" \in DOMAIN filter_params
          => ts[1] >= to_datetime(filter_params["start_date"])[1]
    /\ "end_date" \in DOMAIN filter_params
          => ts[1] <= to_datetime(filter_params["end_date"])[1]

DropOutside(df, filter_params) ==
    [columns |-> df.columns,
     rows |-> SelectSeq(df.rows,
                 LAMBDA r : /\ HasColumn(df, "timestamp")
                            /\ Within(r["timestamp"], filter_params))]

C7_FilterNeverFailsOnTimestampless ==
    (AnalyzeCall /\ ActiveFilter /\ ReachesFilter)
    => outcome.text = AggregationOf(DropOutside(Combined, Params["filter"]))

----------------------------------------------------------------------------
\* C8: the Schema Normalizer returns the first column, in the given order,
\* whose lower-cased name is the lower-cased form of a synonym of the
\* metric, and None when there is none; every casing of a synonym is
\* found, and no column is found for two metrics.
Matches(col, metric) ==
    Lower(col) \in {Lower(n) : n \in Range(PossibleNames(metric))}

C8_FirstMatchingColumn ==
    target # "" =>
        /\ found = <<>> <=> \A i \in DOMAIN columns : ~Matches(columns[i], target)
        /\ found # <<>> =>
              \E i \in DOMAIN columns :
                 /\ found = <<columns[i]>>
                 /\ Matches(columns[i], target)
                 /\ \A j \in 1..(i - 1) : ~Matches(columns[j], target)
        /\ \A i \in DOMAIN columns :
              /\ Cardinality({m \in DOMAIN column_mappings :
                     normalize_column_name(<<columns[i]>>, m) # <<>>}) <= 1
              /\ \A m \in DOMAIN column_mappings :
                    Matches(columns[i], m)
                        => normalize_column_name(<<columns[i]>>, m) = <<columns[i]>>

\* Two casings of a temperature synonym: the first one in the list is found.
C8_Witness ==
    /\ columns = <<"TEMP", "Temp">>
    /\ target = "temperature"
    /\ found = <<"TEMP">>

----------------------------------------------------------------------------
\* C9: the prefixes of the failure texts. A failure is an answer that is
\* not the JSON encoding of a result.
StartsWith(s, p) == Len(s) >= Len(p) /\ SubSeq(s, 1, Len(p)) = p

ClaimedPrefix(text) ==
    \E p \in {"Error:", "Analysis error:", "Chart creation error:"} :
        StartsWith(text.pre \o text.msg, p)

\* C9, as claimed: every failure text begins with "Error:",
\* "Analysis error:" or "Chart creation error:".
C9_EveryFailureHasAPrefix ==
    (Called /\ outcome.text.form = "str") => ClaimedPrefix(outcome.text)

\* C9, amended: every failure text begins with one of the three prefixes,
\* except that an unrecognized operation answers "Unknown operation. Use
\* 'load', 'analyze', or 'chart'.", an analyze request none of whose rooms
\* has a file answers "No data files found", and a failing load answers
\* "Error loading data info: ...".
C9_FailureTexts ==
    (Called /\ outcome.text.form = "str")
    => \/ ClaimedPrefix(outcome.text)
       \/ /\ HasParams
          /\ Get(Params, "operation", "analyze") \notin {"load", "analyze", "chart"}
          /\ outcome.text =
                 StrText("Unknown operation. Use 'load', 'analyze', or 'chart'.", "")
       \/ /\ AnalyzeCall
          /\ \A i \in DOMAIN RoomsOf(Params) : ~Exists(RoomsOf(Params)[i])
          /\ outcome.text = StrText("No data files found", "")
       \/ /\ HasParams
          /\ Get(Params, "operation", "analyze") = "load"
          /\ outcome.text.pre = "Error loading data info: "

\* A room load failure was answered with the analysis prefix.
C9_Witness ==
    /\ AnalyzeCall
    /\ \E i \in DOMAIN ExistingRooms : ~Loads(ExistingRooms[i])
    /\ outcome.text.form = "str"
    /\ StartsWith(outcome.text.pre, "Analysis error:")

----------------------------------------------------------------------------
\* C10: a chart request returns a chart configuration only when the
\* analysis of the same parameters gave an aggregation result, which is then
\* its data; a no-data or analysis-error text gives "Chart creation error:".
\* The configuration's type, x_axis and y_axis are the requested
\* chart_type, group_by and first metric.
UnderlyingAnalysis == analyze_data(files, dataFolder, Params).val

C10_ChartOnlyOverAResult ==
    ChartCall =>
        /\ UnderlyingAnalysis.form # "json"
              => /\ outcome.text.form = "str"
                 /\ outcome.text.pre = "Chart creation error: "
        /\ outcome.text.form = "json"
              => /\ UnderlyingAnalysis.form = "json"
                 /\ DOMAIN outcome.text.value =
                        {"type", "data", "title", "x_axis", "y_axis"}
                 /\ outcome.text.value.data = UnderlyingAnalysis.value
                 /\ "chart_type" \in DOMAIN Params
                       => outcome.text.value.type = Params["chart_type"]
                 /\ "group_by" \in DOMAIN Params
                       => outcome.text.value.x_axis = Params["group_by"]
                 /\ "metrics" \in DOMAIN Params
                       => outcome.text.value.y_axis = Params["metrics"][1]

\* A bar chart by hour of co2 and temperature was returned.
C10_Witness ==
    /\ ChartCall
    /\ outcome.text.form = "json"
    /\ "chart_type" \in DOMAIN Params /\ outcome.text.value.type = "bar"
    /\ "group_by" \in DOMAIN Params /\ outcome.text.value.x_axis = "hour"
    /\ "metrics" \in DOMAIN Params /\ outcome.text.value.y_axis = "co2"
====
